---- MODULE Spec2Model ----
(***************************************************************************)
(* A model of the tutor agent's task lifecycle: TutorTaskManager            *)
(* (src/tutor_task_manager.py) driving the shared TutorAgent                *)
(* (src/tutor_agent.py) over the in-memory task store.                      *)
(*                                                                          *)
(* Python strings are modelled as sequences of tokens.  A token is a piece  *)
(* of text that the code never looks inside: a word, a blank, a line break, *)
(* a colon, a brace, or a fixed fragment of an f-string.  str.strip, split, *)
(* lower, replace, `in` and str.format are computed on these sequences the  *)
(* way Python computes them on characters.                                  *)
(***************************************************************************)
EXTENDS Integers, Sequences, FiniteSets, TLC

VARIABLES
    tasks,          \* self.tasks: task id -> Task
    task_messages,  \* self.task_messages: task id -> message history
    agent,          \* self.agent: the one TutorAgent shared by all requests
    last,           \* the request handled last and what its handler returned
    calls,          \* the on_send_task coroutines: where each stands, its locals
    lock,           \* self.lock: the coroutine that holds it, or "none"
    running,        \* the coroutine the event loop is running, or "none"
    responses       \* task id -> the task responses on_send_task has returned for it

\* the part of the state that only the coroutine-level specification moves
async_vars == <<calls, lock, running, responses>>

vars == <<tasks, task_messages, agent, last, calls, lock, running, responses>>

----------------------------------------------------------------------------
(* str methods on token sequences *)

WhiteSpace == {" ", "\n"}

\* str.lower() of one token
lower_token(tok) ==
    CASE tok = "Topic" -> "topic"
      [] tok = "Background" -> "background"
      [] tok = "Goals" -> "goals"
      [] tok = "ML" -> "ml"
      [] tok = "Python" -> "python"
      [] tok = "Advanced" -> "advanced"
      [] tok = "Build" -> "build"
      [] tok = "Fundamentals" -> "fundamentals"
      [] OTHER -> tok

lower(s) == [i \in 1..Len(s) |-> lower_token(s[i])]

\* str.capitalize() of a one-token string
capitalize(s) ==
    [i \in 1..Len(s) |->
        CASE s[i] = "article" -> "Article"
          [] s[i] = "practice" -> "Practice"
          [] s[i] = "course" -> "Course"
          [] OTHER -> s[i]]

\* str.replace(old, new) for one-token old and new
replace(s, old, new) == [i \in 1..Len(s) |-> IF s[i] = old THEN new ELSE s[i]]

\* `sub in s`
contains(s, sub) ==
    \E i \in 0..(Len(s) - Len(sub)) : SubSeq(s, i + 1, i + Len(sub)) = sub

RECURSIVE lstrip(_)
lstrip(s) ==
    IF s # <<>> /\ Head(s) \in WhiteSpace THEN lstrip(Tail(s)) ELSE s

RECURSIVE rstrip(_)
rstrip(s) ==
    IF s # <<>> /\ s[Len(s)] \in WhiteSpace
    THEN rstrip(SubSeq(s, 1, Len(s) - 1))
    ELSE s

strip(s) == rstrip(lstrip(s))

\* index of the first occurrence of token sep in s, 0 when there is none
find(s, sep) ==
    IF \E i \in 1..Len(s) : s[i] = sep
    THEN CHOOSE i \in 1..Len(s) : s[i] = sep /\ \A j \in 1..(i - 1) : s[j] # sep
    ELSE 0

\* s.split(sep): the list of the pieces between the separators
RECURSIVE split(_, _)
split(s, sep) ==
    LET i == find(s, sep)
    IN  IF i = 0
        THEN <<s>>
        ELSE <<SubSeq(s, 1, i - 1)>> \o split(SubSeq(s, i + 1, Len(s)), sep)

\* s.split(sep, 1): at most one split
split1(s, sep) ==
    LET i == find(s, sep)
    IN  IF i = 0
        THEN <<s>>
        ELSE <<SubSeq(s, 1, i - 1), SubSeq(s, i + 1, Len(s))>>

(* str.format with keywords kw on a template.  "{{" and "}}" are escapes; "{name}" or  *)
(* "{name:spec}" is replaced by kw[name], and the replaced text is not      *)
(* scanned again.  A name that is no keyword raises KeyError, whose str is  *)
(* the repr of the name; an empty name asks for positional argument 0,      *)
(* which does not exist; a brace without its partner raises ValueError.     *)
(* The result is [ok, out, err]: the text, or str(exception).               *)
FormatOk(out) == [ok |-> TRUE, out |-> out, err |-> <<>>]
FormatErr(err) == [ok |-> FALSE, out |-> <<>>, err |-> err]

\* format from the text s on, with out the text produced so far
RECURSIVE format_from(_, _, _)
format_from(s, kw, out) ==
    IF s = <<>> THEN FormatOk(out)
    ELSE IF Head(s) = "{" /\ Len(s) >= 2 /\ s[2] = "{" THEN
        format_from(SubSeq(s, 3, Len(s)), kw, Append(out, "{"))
    ELSE IF Head(s) = "}" /\ Len(s) >= 2 /\ s[2] = "}" THEN
        format_from(SubSeq(s, 3, Len(s)), kw, Append(out, "}"))
    ELSE IF Head(s) = "}" THEN
        FormatErr(<<"Single '}' encountered in format string">>)
    ELSE IF Head(s) = "{" THEN
        LET close == find(s, "}")
            field == SubSeq(s, 2, close - 1)
            name  == IF field = <<>> \/ field[1] \in {":", "!"} THEN "" ELSE field[1]
            spec  == IF Len(field) >= 2 THEN SubSeq(field, 2, Len(field)) ELSE <<>>
        IN  IF Len(s) = 1 THEN
                FormatErr(<<"Single '{' encountered in format string">>)
            ELSE IF close = 0 THEN
                FormatErr(<<"expected '}' before end of string">>)
            ELSE IF name = "" THEN
                FormatErr(<<"Replacement index 0 out of range for positional args tuple">>)
            ELSE IF name \notin DOMAIN kw THEN
                FormatErr(<<"'", name, "'">>)
            ELSE IF spec # <<>> THEN
                FormatErr(<<"Invalid format specifier">>)
            ELSE
                format_from(SubSeq(s, close + 1, Len(s)), kw, out \o kw[name])
    ELSE
        format_from(Tail(s), kw, Append(out, Head(s)))

format(s, kw) == format_from(s, kw, <<>>)

----------------------------------------------------------------------------
(* TutorAgent *)

SUPPORTED_CONTENT_TYPES == <<"text", "text/plain">>

\* Task.description of self.assessment_task, as __init__ sets it
assessment_task_description ==
    <<"Analyze the student's information: topic of interest '", "{", "topic", "}",
      "', background '", "{", "student_background", "}",
      "', and goals '", "{", "student_goals", "}",
      "'. Use the AssessStudentTool to conduct a thorough assessment and identify learning gaps.">>

\* Task.description of self.materials_task, as __init__ sets it
materials_task_description ==
    <<"Based on the assessment results, create personalized learning materials for the student. Topic: '",
      "{", "topic", "}", "', Identified gaps: ", "{", "identified_gaps", "}",
      ", Student level: ", "{", "student_level", "}",
      ", Student goals: '", "{", "student_goals", "}",
      "'. Use the CreateLearningMaterialsTool to generate a customized learning plan with appropriate resources and milestones.">>

\* TutorAgent(): the part of the agent's state that invoke reads and writes
TutorAgent_init ==
    [assessment_task_description |-> assessment_task_description,
     materials_task_description  |-> materials_task_description]

\* one pass of the loop body of parse_student_info
parse_line(info, line) ==
    IF contains(lower(line), <<"topic", ":">>)
    THEN [info EXCEPT !.topic = strip(split1(line, ":")[2])]
    ELSE IF contains(lower(line), <<"background", ":">>)
    THEN [info EXCEPT !.student_background = strip(split1(line, ":")[2])]
    ELSE IF contains(lower(line), <<"goals", ":">>)
    THEN [info EXCEPT !.student_goals = strip(split1(line, ":")[2])]
    ELSE info

RECURSIVE parse_lines(_, _)
parse_lines(info, lines) ==
    IF lines = <<>> THEN info
    ELSE parse_lines(parse_line(info, Head(lines)), Tail(lines))

parse_student_info(query) ==
    parse_lines([topic |-> <<>>, student_background |-> <<>>, student_goals |-> <<>>],
                split(strip(query), "\n"))

\* the two simulated gaps of invoke; uuid4().hex is kept as one opaque token
identified_gaps(topic) ==
    << [id |-> "<uuid>",
        topic |-> <<"Fundamentals", " ", "of", " ">> \o topic,
        description |-> <<"Gaps in basic understanding of ">> \o topic \o <<" fundamentals">>,
        severity |-> 3],
       [id |-> "<uuid>",
        topic |-> <<"Advanced", " ">> \o topic \o <<" ", "concepts">>,
        description |-> <<"Limited knowledge of advanced ">> \o topic \o <<" principles">>,
        severity |-> 4] >>

\* str() of one gap dict, as str.format renders it inside the list
gap_repr(gap) ==
    <<"{", "'id'", ":", " '", gap.id, "', 'topic': '">> \o gap.topic
    \o <<"', 'description': '">> \o gap.description
    \o <<"', 'severity': ", ToString(gap.severity),
         ", 'recommended_materials': [...]", "}">>

\* str() of the list of gap dicts
RECURSIVE gaps_repr_items(_)
gaps_repr_items(gaps) ==
    IF gaps = <<>> THEN <<>>
    ELSE gap_repr(Head(gaps))
         \o (IF Len(gaps) > 1 THEN <<", ">> ELSE <<>>)
         \o gaps_repr_items(Tail(gaps))

gaps_repr(gaps) == <<"[">> \o gaps_repr_items(gaps) \o <<"]">>

\* the two resources invoke builds for one gap
gap_resources(gap, assessed_level) ==
    << [title |-> <<"Understanding ">> \o gap.topic,
        type |-> <<"article">>,
        difficulty |-> IF assessed_level = <<"beginner">>
                       THEN <<"beginner">> ELSE <<"intermediate">>,
        url |-> <<"https://example.com/learn/">> \o replace(lower(gap.topic), " ", "-")],
       [title |-> <<"Interactive ">> \o gap.topic \o <<" Exercises">>,
        type |-> <<"practice">>,
        difficulty |-> assessed_level,
        url |-> <<"https://example.com/practice/">> \o replace(lower(gap.topic), " ", "-")] >>

RECURSIVE all_gap_resources(_, _)
all_gap_resources(gaps, assessed_level) ==
    IF gaps = <<>> THEN <<>>
    ELSE gap_resources(Head(gaps), assessed_level)
         \o all_gap_resources(Tail(gaps), assessed_level)

gap_milestones(gaps) ==
    [i \in 1..Len(gaps) |-> <<"Master the basics of ">> \o gaps[i].topic]

\* the shapes of the dict invoke returns: {"error": ...} or
\* {"assessment": ..., "learning_plan": ...}
NoAssessment == [assessed_level |-> <<>>, identified_gaps |-> <<>>]
NoPlan ==
    [id |-> "", student_level |-> <<>>, gaps |-> <<>>, recommended_resources |-> <<>>,
     milestones |-> <<>>, estimated_time |-> 0]

ErrorResult(msg) ==
    [has_error |-> TRUE, error |-> msg, assessment |-> NoAssessment, learning_plan |-> NoPlan]

PlanResult(assessment, plan) ==
    [has_error |-> FALSE, error |-> <<>>, assessment |-> assessment, learning_plan |-> plan]

\* lines 245-248: the defaults for a missing background and missing goals
student_info_of(parsed) ==
    [topic |-> parsed.topic,
     student_background |->
         IF parsed.student_background = <<>>
         THEN <<"No background information provided.">>
         ELSE parsed.student_background,
     student_goals |->
         IF parsed.student_goals = <<>>
         THEN <<"General knowledge improvement.">>
         ELSE parsed.student_goals]

\* lines 263-281: the simulated assessment
assessment_data_of(student_info) ==
    [assessed_level |-> <<"intermediate">>,
     identified_gaps |-> identified_gaps(student_info.topic)]

\* line 325: the goals ask for mastery or for something advanced
wants_advanced(student_goals) ==
    \/ contains(lower(student_goals), <<"mastery">>)
    \/ contains(lower(student_goals), <<"advanced">>)

\* lines 302-341: the learning plan
learning_plan_data(student_info, assessment_data) ==
    [id |-> "<uuid>",
     student_level |-> assessment_data.assessed_level,
     gaps |-> assessment_data.identified_gaps,
     recommended_resources |->
         all_gap_resources(assessment_data.identified_gaps, assessment_data.assessed_level)
         \o (IF wants_advanced(student_info.student_goals)
             THEN << [title |-> <<"Advanced ">> \o student_info.topic \o <<" Masterclass">>,
                      type |-> <<"course">>,
                      difficulty |-> <<"advanced">>,
                      url |-> <<"https://example.com/courses/advanced-">>
                              \o replace(lower(student_info.topic), " ", "-")] >>
             ELSE <<>>),
     milestones |->
         gap_milestones(assessment_data.identified_gaps)
         \o (IF wants_advanced(student_info.student_goals)
             THEN << <<"Complete advanced ">> \o student_info.topic \o <<" project">> >>
             ELSE <<>>),
     estimated_time |-> 20]

(* lines 290-349: the formatted materials description is stored back into   *)
(* the materials task, then the plan is built and returned                  *)
invoke_materials(self, student_info, assessment_data, formatted_materials) ==
    IF ~formatted_materials.ok THEN
        [result |-> ErrorResult(<<"Failed to generate learning plan: ">>
                                \o formatted_materials.err),
         self |-> self]
    ELSE
        [result |-> PlanResult(assessment_data,
                               learning_plan_data(student_info, assessment_data)),
         self |-> [self EXCEPT !.materials_task_description = formatted_materials.out]]

\* lines 263-289: the assessment and the format of the materials description
invoke_assessed(self, student_info, assessment_data) ==
    invoke_materials(self, student_info, assessment_data,
        format(self.materials_task_description,
               [topic |-> student_info.topic,
                identified_gaps |-> gaps_repr(assessment_data.identified_gaps),
                student_level |-> assessment_data.assessed_level,
                student_goals |-> student_info.student_goals]))

(* line 259: the formatted assessment description is stored back into the   *)
(* assessment task                                                           *)
invoke_assessment(self, student_info, formatted_assessment) ==
    IF ~formatted_assessment.ok THEN
        [result |-> ErrorResult(<<"Failed to generate learning plan: ">>
                                \o formatted_assessment.err),
         self |-> self]
    ELSE
        invoke_assessed(
            [self EXCEPT !.assessment_task_description = formatted_assessment.out],
            student_info, assessment_data_of(student_info))

\* lines 250-258: the try block of invoke, up to the first str.format
invoke_try(self, student_info) ==
    invoke_assessment(self, student_info,
        format(self.assessment_task_description,
               [topic |-> student_info.topic,
                student_background |-> student_info.student_background,
                student_goals |-> student_info.student_goals]))

\* lines 241-248: a query without a topic is answered without touching the tasks
invoke_parsed(self, parsed) ==
    IF parsed.topic = <<>> THEN
        [result |-> ErrorResult(<<"Please specify a topic of interest.">>),
         self |-> self]
    ELSE invoke_try(self, student_info_of(parsed))

(* TutorAgent.invoke(query, session_id): the returned dict and the agent    *)
(* after the call.  invoke stores each formatted description back into the  *)
(* task it came from (lines 259 and 290), so the next call formats the      *)
(* text this call produced.  An exception of either str.format is caught    *)
(* by the except of line 351 and becomes an {"error": ...} result.          *)
(* tutor_crew.kickoff() (line 294) is wrapped in its own try and its        *)
(* result is not used: it decides nothing here.                             *)
invoke(self, query) ==
    invoke_parsed(self, parse_student_info(query))

RECURSIVE gap_lines(_)
gap_lines(gaps) ==
    IF gaps = <<>> THEN <<>>
    ELSE <<"- ">> \o Head(gaps).topic \o <<": ">> \o Head(gaps).description
         \o <<" (Severity: ", ToString(Head(gaps).severity), "/5)\n">>
         \o gap_lines(Tail(gaps))

RECURSIVE resource_lines(_)
resource_lines(resources) ==
    IF resources = <<>> THEN <<>>
    ELSE <<"- [">> \o Head(resources).title \o <<"](">> \o Head(resources).url
         \o <<") - ">> \o capitalize(Head(resources).type) \o <<", ">>
         \o Head(resources).difficulty \o <<" level\n">>
         \o resource_lines(Tail(resources))

\* the enumerate(plan["milestones"], 1) loop, from number i on
RECURSIVE milestone_lines(_, _)
milestone_lines(milestones, i) ==
    IF milestones = <<>> THEN <<>>
    ELSE <<ToString(i), ". ">> \o Head(milestones) \o <<"\n">>
         \o milestone_lines(Tail(milestones), i + 1)

\* TutorAgent.get_formatted_response(result)
get_formatted_response(result) ==
    IF result.has_error THEN <<"Error: ">> \o result.error
    ELSE <<"# Personalized Learning Plan\n\n", "## Student Assessment\n",
           "Current knowledge level: ">> \o result.assessment.assessed_level \o <<"\n\n">>
         \o <<"## Identified Learning Gaps\n">>
         \o gap_lines(result.assessment.identified_gaps)
         \o <<"\n## Recommended Learning Resources\n">>
         \o resource_lines(result.learning_plan.recommended_resources)
         \o <<"\n## Learning Milestones\n">>
         \o milestone_lines(result.learning_plan.milestones, 1)
         \o <<"\n## Estimated Time to Complete: ",
              ToString(result.learning_plan.estimated_time), " hours\n">>

----------------------------------------------------------------------------
(* The protocol types the task manager handles (agent2agent.types) *)

\* Optional[List[...]]: None, or a list
None_list == [is_none |-> TRUE, list |-> <<>>]
Some_list(l) == [is_none |-> FALSE, list |-> l]

Message(role, parts) == [role |-> role, parts |-> parts]

\* Optional[Message]: None, or a message
None_message == [is_none |-> TRUE, message |-> Message("", <<>>)]
Some_message(m) == [is_none |-> FALSE, message |-> m]

TextPart(text) == [type |-> "text", text |-> text]
FilePart == [type |-> "file", text |-> <<>>]
Artifact(parts) == [parts |-> parts]
TaskStatus(state, message) == [state |-> state, message |-> message]

\* the value standing for "no task" in a handler's outcome
NoTask ==
    [id |-> "", sessionId |-> "", status |-> TaskStatus("", None_message),
     artifacts |-> None_list]

\* task.artifacts read as a list: None reads as the empty list
artifacts_of(task) == task.artifacts.list

----------------------------------------------------------------------------
(* The task store (InMemoryTaskManager) *)

(* utils.are_modalities_compatible: the accepted output modes and the       *)
(* supported content types share a member.                                  *)
are_modalities_compatible(server_output_modes, client_output_modes) ==
    \E i \in 1..Len(server_output_modes), j \in 1..Len(client_output_modes) :
        server_output_modes[i] = client_output_modes[j]

\* upsert_task that inserts a fresh record whether or not the id is there
upsert_task_overwriting(store, task_send_params) ==
    LET task == [id |-> task_send_params.id,
                 sessionId |-> task_send_params.sessionId,
                 status |-> TaskStatus("SUBMITTED", None_message),
                 artifacts |-> None_list]
        history == <<task_send_params.message.role>>
    IN  [tasks |-> (task_send_params.id :> task) @@ store.tasks,
         task_messages |-> (task_send_params.id :> history) @@ store.task_messages]

(* InMemoryTaskManager.upsert_task: an existing task is left as it is; a    *)
(* new one is inserted in state SUBMITTED with a message history seeded     *)
(* with the request's message.  A history keeps each message by its role:   *)
(* no code reads the parts of a stored message.                             *)
upsert_task(store, task_send_params) ==
    IF task_send_params.id \in DOMAIN store.tasks THEN store
    ELSE
        LET task == [id |-> task_send_params.id,
                     sessionId |-> task_send_params.sessionId,
                     status |-> TaskStatus("SUBMITTED", None_message),
                     artifacts |-> None_list]
            history == <<task_send_params.message.role>>
        IN  [tasks |-> (task_send_params.id :> task) @@ store.tasks,
             task_messages |-> (task_send_params.id :> history) @@ store.task_messages]

\* _update_store with `task.artifacts = artifacts` in place of the extend
_update_store_replacing(store, task_id, status, artifacts) ==
    IF task_id \notin DOMAIN store.tasks THEN
        [raised |-> TRUE, error |-> <<"Task ", task_id, " not found">>,
         store |-> store, task |-> NoTask]
    ELSE
        LET task == [store.tasks[task_id] EXCEPT
                        !.status = status,
                        !.artifacts = IF artifacts.is_none THEN @ ELSE artifacts]
            history == IF ~status.message.is_none
                       THEN Append(store.task_messages[task_id], status.message.message.role)
                       ELSE store.task_messages[task_id]
        IN  [raised |-> FALSE, error |-> <<>>,
             store |-> [tasks |-> [store.tasks EXCEPT ![task_id] = task],
                        task_messages |-> [store.task_messages EXCEPT ![task_id] = history]],
             task |-> task]

\* _update_store that creates a missing task (tasks.setdefault) and goes on
_update_store_creating(store, task_id, status, artifacts) ==
    LET old == IF task_id \in DOMAIN store.tasks THEN store.tasks[task_id]
               ELSE [NoTask EXCEPT !.id = task_id]
        old_history == IF task_id \in DOMAIN store.task_messages
                       THEN store.task_messages[task_id] ELSE <<>>
        task == [old EXCEPT
                    !.status = status,
                    !.artifacts = IF artifacts.is_none THEN @
                                  ELSE Some_list(@.list \o artifacts.list)]
        history == IF ~status.message.is_none
                   THEN Append(old_history, status.message.message.role)
                   ELSE old_history
    IN  [raised |-> FALSE, error |-> <<>>,
         store |-> [tasks |-> (task_id :> task) @@ store.tasks,
                    task_messages |-> (task_id :> history) @@ store.task_messages],
         task |-> task]

\* _update_store that drops the update of a task that is COMPLETED or FAILED
_update_store_first_wins(store, task_id, status, artifacts) ==
    IF task_id \notin DOMAIN store.tasks THEN
        [raised |-> TRUE, error |-> <<"Task ", task_id, " not found">>,
         store |-> store, task |-> NoTask]
    ELSE IF store.tasks[task_id].status.state \in {"COMPLETED", "FAILED"} THEN
        [raised |-> FALSE, error |-> <<>>, store |-> store, task |-> store.tasks[task_id]]
    ELSE
        LET task == [store.tasks[task_id] EXCEPT
                        !.status = status,
                        !.artifacts = IF artifacts.is_none THEN @
                                      ELSE Some_list(@.list \o artifacts.list)]
            history == IF ~status.message.is_none
                       THEN Append(store.task_messages[task_id], status.message.message.role)
                       ELSE store.task_messages[task_id]
        IN  [raised |-> FALSE, error |-> <<>>,
             store |-> [tasks |-> [store.tasks EXCEPT ![task_id] = task],
                        task_messages |-> [store.task_messages EXCEPT ![task_id] = history]],
             task |-> task]

\* _update_store that writes the status to every task of the store
_update_store_all(store, task_id, status, artifacts) ==
    IF task_id \notin DOMAIN store.tasks THEN
        [raised |-> TRUE, error |-> <<"Task ", task_id, " not found">>,
         store |-> store, task |-> NoTask]
    ELSE
        LET task == [store.tasks[task_id] EXCEPT
                        !.status = status,
                        !.artifacts = IF artifacts.is_none THEN @
                                      ELSE Some_list(@.list \o artifacts.list)]
            history == IF ~status.message.is_none
                       THEN Append(store.task_messages[task_id], status.message.message.role)
                       ELSE store.task_messages[task_id]
        IN  [raised |-> FALSE, error |-> <<>>,
             store |-> [tasks |-> [t \in DOMAIN store.tasks |->
                                      IF t = task_id THEN task
                                      ELSE [store.tasks[t] EXCEPT !.status = status]],
                        task_messages |-> [store.task_messages EXCEPT ![task_id] = history]],
             task |-> task]

(* TutorTaskManager._update_store, all of it under self.lock:                *)
(* [raised, error, store, task].  A missing task raises ValueError before   *)
(* anything is written.                                                      *)
_update_store(store, task_id, status, artifacts) ==
    IF task_id \notin DOMAIN store.tasks THEN
        [raised |-> TRUE, error |-> <<"Task ", task_id, " not found">>,
         store |-> store, task |-> NoTask]
    ELSE
        LET task == [store.tasks[task_id] EXCEPT
                        !.status = status,
                        !.artifacts = IF artifacts.is_none THEN @
                                      ELSE Some_list(@.list \o artifacts.list)]
            history == IF ~status.message.is_none
                       THEN Append(store.task_messages[task_id], status.message.message.role)
                       ELSE store.task_messages[task_id]
        IN  [raised |-> FALSE, error |-> <<>>,
             store |-> [tasks |-> [store.tasks EXCEPT ![task_id] = task],
                        task_messages |-> [store.task_messages EXCEPT ![task_id] = history]],
             task |-> task]

----------------------------------------------------------------------------
(* TutorTaskManager *)

(* What a handler leaves behind: the store and the agent after it, and what *)
(* the caller gets: "result" (a response wrapping a task), "error" (an      *)
(* error response) or "raised" (an exception leaves the handler).           *)
Outcome(store, self_agent, returned, error, task) ==
    [store |-> store, agent |-> self_agent, returned |-> returned,
     error |-> error, task |-> task]

\* TutorTaskManager._get_user_query: [raised, error, text]
_get_user_query(task_send_params) ==
    IF task_send_params.message.parts = <<>> THEN
        [raised |-> FALSE, error |-> <<>>, text |-> <<>>]
    ELSE IF task_send_params.message.parts[1].type # "text" THEN
        [raised |-> TRUE, error |-> <<"Only text parts are supported">>, text |-> <<>>]
    ELSE
        [raised |-> FALSE, error |-> <<>>, text |-> task_send_params.message.parts[1].text]

\* whether the handler gets as far as calling the agent
calls_agent(request) ==
    /\ are_modalities_compatible(request.params.acceptedOutputModes,
                                 SUPPORTED_CONTENT_TYPES)
    /\ ~_get_user_query(request.params).raised

\* str(e) of an exception that the agent's collaborators raise
FaultText == <<"agent call failed">>

(* The agent is handed to the task manager by its constructor, and _invoke  *)
(* calls it inside `try`: "invoke" is an exception leaving agent.invoke     *)
(* before it changed the agent, "format" one leaving get_formatted_response.*)
AgentFaults == {"none", "invoke", "format"}

\* the except clause with TaskState.COMPLETED in place of FAILED
_invoke_except_completing(store, self_agent, task_send_params, e) ==
    LET error_message == <<"Error: ">> \o e
        parts == <<TextPart(error_message)>>
        updated == _update_store(store, task_send_params.id,
                                 TaskStatus("COMPLETED", None_message),
                                 Some_list(<<Artifact(parts)>>))
    IN  IF updated.raised
        THEN Outcome(store, self_agent, "raised", updated.error, NoTask)
        ELSE Outcome(updated.store, self_agent, "result", <<>>, updated.task)

\* the except clause writing FAILED without an artifact
_invoke_except_without_artifact(store, self_agent, task_send_params, e) ==
    LET updated == _update_store(store, task_send_params.id,
                                 TaskStatus("FAILED", None_message), None_list)
    IN  IF updated.raised
        THEN Outcome(store, self_agent, "raised", updated.error, NoTask)
        ELSE Outcome(updated.store, self_agent, "result", <<>>, updated.task)

\* the except clause of _invoke, lines 113-126, for the exception text e
_invoke_except(store, self_agent, task_send_params, e) ==
    LET error_message == <<"Error: ">> \o e
        parts == <<TextPart(error_message)>>
        updated == _update_store(store, task_send_params.id,
                                 TaskStatus("FAILED", None_message),
                                 Some_list(<<Artifact(parts)>>))
    IN  IF updated.raised
        THEN Outcome(store, self_agent, "raised", updated.error, NoTask)
        ELSE Outcome(updated.store, self_agent, "result", <<>>, updated.task)

\* lines 110-111: the try block returns the stored task
_invoke_try_stored(store, self_agent, task_send_params, updated) ==
    IF updated.raised
    THEN _invoke_except(store, self_agent, task_send_params, updated.error)
    ELSE Outcome(updated.store, self_agent, "result", <<>>, updated.task)

\* the store update failing the task when the agent's result carries an error
_invoke_try_store_failing_soft(store, self_agent, task_send_params, result) ==
    _invoke_try_stored(store, self_agent, task_send_params,
        _update_store(store, task_send_params.id,
                      TaskStatus(IF result.has_error THEN "FAILED" ELSE "COMPLETED",
                                 None_message),
                      Some_list(<<Artifact(<<TextPart(get_formatted_response(result))>>)>>)))

\* the store update writing TaskState.WORKING in place of COMPLETED
_invoke_try_store_working(store, self_agent, task_send_params, result) ==
    _invoke_try_stored(store, self_agent, task_send_params,
        _update_store(store, task_send_params.id,
                      TaskStatus("WORKING", None_message),
                      Some_list(<<Artifact(<<TextPart(get_formatted_response(result))>>)>>)))

(* lines 99-109: the formatted response becomes the one part of one         *)
(* artifact, stored with TaskState.COMPLETED whatever the result says       *)
_invoke_try_store(store, self_agent, task_send_params, result) ==
    _invoke_try_stored(store, self_agent, task_send_params,
        _update_store(store, task_send_params.id,
                      TaskStatus("COMPLETED", None_message),
                      Some_list(<<Artifact(<<TextPart(get_formatted_response(result))>>)>>)))

\* lines 96-99: the agent has returned; get_formatted_response may yet raise
_invoke_try_invoked(store, task_send_params, invoked, fault) ==
    IF fault = "format"
    THEN _invoke_except(store, invoked.self, task_send_params, FaultText)
    ELSE _invoke_try_store(store, invoked.self, task_send_params, invoked.result)

\* the try block of _invoke, lines 93-111
_invoke_try(store, self_agent, task_send_params, query, fault) ==
    IF fault = "invoke"
    THEN _invoke_except(store, self_agent, task_send_params, FaultText)
    ELSE _invoke_try_invoked(store, task_send_params, invoke(self_agent, query), fault)

\* TutorTaskManager._invoke: the query is extracted before the try block
_invoke(store, self_agent, request, fault) ==
    LET query == _get_user_query(request.params)
    IN  IF query.raised
        THEN Outcome(store, self_agent, "raised", query.error, NoTask)
        ELSE _invoke_try(store, self_agent, request.params, query.text, fault)

\* a rejection that comes after the upsert, as in on_send_task_subscribe
rejected_after_upsert(store, task_send_params) == upsert_task(store, task_send_params)

\* the store as on_send_task leaves it when it rejects the output modes
rejected(store, task_send_params) == store

\* TutorTaskManager.on_send_task
on_send_task(store, self_agent, request, fault) ==
    IF ~are_modalities_compatible(request.params.acceptedOutputModes,
                                  SUPPORTED_CONTENT_TYPES)
    THEN Outcome(rejected(store, request.params), self_agent, "error",
                 <<"Incompatible content types">>, NoTask)
    ELSE _invoke(upsert_task(store, request.params), self_agent, request, fault)

\* on_send_task_subscribe with the upsert moved before the validation
on_send_task_subscribe_upsert_first(store, self_agent, request, validation_error) ==
    IF validation_error
    THEN Outcome(upsert_task(store, request.params), self_agent, "error",
                 <<"Invalid request">>, NoTask)
    ELSE Outcome(upsert_task(store, request.params), self_agent, "raised",
                 <<"Streaming is not supported by TutorAgent">>, NoTask)

(* TutorTaskManager.on_send_task_subscribe.  _validate_request is inherited *)
(* from the library: it returns None or an error response, given here as    *)
(* validation_error; when it returns an error the handler returns it.       *)
on_send_task_subscribe(store, self_agent, request, validation_error) ==
    IF validation_error
    THEN Outcome(store, self_agent, "error", <<"Invalid request">>, NoTask)
    ELSE Outcome(upsert_task(store, request.params), self_agent, "raised",
                 <<"Streaming is not supported by TutorAgent">>, NoTask)

----------------------------------------------------------------------------
(* Inputs *)

\* the most artifacts the store holds in all
MaxArtifacts == 2
\* the longest message history of a task
MaxHistory == 2

TaskIds == {"t1", "t2"}

\* "Topic: ML\nBackground: Python\nGoals: Build models"
Query_topic ==
    <<"Topic", ":", " ", "ML", "\n", "Background", ":", " ", "Python", "\n",
      "Goals", ":", " ", "Build", " ", "models">>

\* "Background: Python": no topic line
Query_no_topic == <<"Background", ":", " ", "Python">>

Queries == {Query_topic, Query_no_topic}

Messages ==
    {Message("user", <<>>), Message("user", <<FilePart, TextPart(Query_topic)>>)}
    \cup {Message("user", <<TextPart(q)>>) : q \in Queries}

OutputModes == { <<"text">>, <<"application/json", "text/plain">>, <<"application/json">> }

Requests ==
    { [id |-> "r", params |-> [id |-> t, sessionId |-> "s", message |-> m,
                               acceptedOutputModes |-> o]] :
        t \in TaskIds, m \in Messages, o \in OutputModes }

----------------------------------------------------------------------------
(* The state machine *)

Store == [tasks |-> tasks, task_messages |-> task_messages]

RECURSIVE SumArtifacts(_, _)
SumArtifacts(ts, ids) ==
    IF ids = {} THEN 0
    ELSE LET t == CHOOSE x \in ids : TRUE
         IN  Len(artifacts_of(ts[t])) + SumArtifacts(ts, ids \ {t})

TotalArtifacts == SumArtifacts(tasks, DOMAIN tasks)

NoRequest ==
    [id |-> "", params |-> [id |-> "", sessionId |-> "", message |-> Message("", <<>>),
                            acceptedOutputModes |-> <<>>]]

\* what `last` records of one handled operation
Handled(op, request, fault, out) ==
    [op |-> op, request |-> request, fault |-> fault, returned |-> out.returned,
     error |-> out.error, task |-> out.task,
     task_id |-> request.params.id, status |-> TaskStatus("", None_message),
     artifacts |-> None_list]

\* the coroutines that can run on_send_task at the same time
Procs == {"c1", "c2"}

\* a coroutine that is not in a call: what its last call returned stays on it
IdleCall ==
    [pc |-> "idle", request |-> NoRequest, query |-> <<>>,
     status |-> TaskStatus("", None_message), artifact |-> Artifact(<<>>),
     in_except |-> FALSE, returned |-> "", error |-> <<>>]

Init ==
    /\ calls = [p \in Procs |-> IdleCall]
    /\ lock = "none"
    /\ running = "none"
    /\ responses = [t \in TaskIds |-> 0]
    /\ tasks = <<>>
    /\ task_messages = <<>>
    /\ agent = TutorAgent_init
    /\ last = [op |-> "none", request |-> NoRequest, fault |-> "none",
               returned |-> "", error |-> <<>>, task |-> NoTask,
               task_id |-> "", status |-> TaskStatus("", None_message),
               artifacts |-> None_list]

OnSendTask ==
    \E request \in Requests, fault \in AgentFaults :
        \E out \in {on_send_task(Store, agent, request, fault)} :
            /\ TotalArtifacts < MaxArtifacts
            /\ fault # "none" => calls_agent(request)
            /\ tasks' = out.store.tasks
            /\ task_messages' = out.store.task_messages
            /\ agent' = out.agent
            /\ last' = Handled("on_send_task", request, fault, out)
            /\ UNCHANGED async_vars

OnSendTaskSubscribe ==
    \E request \in Requests, validation_error \in BOOLEAN :
        \E out \in {on_send_task_subscribe(Store, agent, request, validation_error)} :
            /\ tasks' = out.store.tasks
            /\ task_messages' = out.store.task_messages
            /\ agent' = out.agent
            /\ last' = Handled("on_send_task_subscribe", request,
                               IF validation_error THEN "invalid" ELSE "none", out)
            /\ UNCHANGED async_vars

Next == OnSendTask \/ OnSendTaskSubscribe

Spec == Init /\ [][Next]_vars

(* The store on its own: upsert_task and _update_store called directly, as  *)
(* a test of the store calls them, for any task id, known to the store or   *)
(* not.  The handlers only ever call _update_store after an upsert.         *)
Artifact_a == Artifact(<<TextPart(<<"a">>)>>)
Artifact_b == Artifact(<<TextPart(<<"b">>)>>)

UpdateStatuses ==
    {TaskStatus("WORKING", None_message),
     TaskStatus("COMPLETED", Some_message(Message("agent", <<>>)))}

UpdateArtifacts ==
    {None_list, Some_list(<<>>), Some_list(<<Artifact_a>>),
     Some_list(<<Artifact_a, Artifact_b>>)}

UpdateStore ==
    \E task_id \in TaskIds, status \in UpdateStatuses, artifacts \in UpdateArtifacts :
        \E updated \in {_update_store(Store, task_id, status, artifacts)} :
            /\ TotalArtifacts + Len(artifacts.list) <= MaxArtifacts
            /\ (task_id \in DOMAIN tasks /\ ~status.message.is_none)
                   => Len(task_messages[task_id]) < MaxHistory
            /\ tasks' = updated.store.tasks
            /\ task_messages' = updated.store.task_messages
            /\ agent' = agent
            /\ last' = [op |-> "_update_store", request |-> NoRequest, fault |-> "none",
                        returned |-> IF updated.raised THEN "raised" ELSE "result",
                        error |-> updated.error, task |-> updated.task,
                        task_id |-> task_id, status |-> status, artifacts |-> artifacts]
            /\ UNCHANGED async_vars

\* upsert_task called on its own
UpsertTask ==
    \E task_id \in TaskIds :
        \E store \in {upsert_task(Store, [id |-> task_id, sessionId |-> "s",
                                          message |-> Message("user", <<>>),
                                          acceptedOutputModes |-> <<"text">>])} :
            /\ tasks' = store.tasks
            /\ task_messages' = store.task_messages
            /\ agent' = agent
            /\ last' = [op |-> "upsert_task", request |-> NoRequest, fault |-> "none",
                        returned |-> "result", error |-> <<>>, task |-> store.tasks[task_id],
                        task_id |-> task_id, status |-> TaskStatus("", None_message),
                        artifacts |-> None_list]
            /\ UNCHANGED async_vars

NextStore == UpsertTask \/ UpdateStore

SpecStore == Init /\ [][NextStore]_vars

----------------------------------------------------------------------------
(* on_send_task as coroutines of one event loop.  The loop runs one         *)
(* coroutine at a time, up to its next suspension; `running` is that        *)
(* coroutine.  Code between two awaits is not interleaved with anything,    *)
(* and agent.invoke is a plain synchronous call (line 96): while it runs    *)
(* the loop runs nothing else.  upsert_task is awaited library code, which  *)
(* may suspend before it returns; an asyncio lock that is free is taken     *)
(* without suspending.                                                      *)

\* the coroutines that are inside on_send_task
InFlight == Cardinality({p \in Procs : calls[p].pc # "idle"})

\* a coroutine back from its call with what the caller got
Returned(returned, error) ==
    [IdleCall EXCEPT !.returned = returned, !.error = error]

\* lines 98-109: the locals of the try block before its _update_store
try_locals(c, result) ==
    [c EXCEPT !.pc = "update",
              !.status = TaskStatus("COMPLETED", None_message),
              !.artifact = Artifact(<<TextPart(get_formatted_response(result))>>),
              !.in_except = FALSE]

\* lines 113-123: the locals of the except clause before its _update_store
except_locals(c, e) ==
    [c EXCEPT !.pc = "update",
              !.status = TaskStatus("FAILED", None_message),
              !.artifact = Artifact(<<TextPart(<<"Error: ">> \o e)>>),
              !.in_except = TRUE]

\* on_send_task that goes on to _invoke without the upsert of lines 51-52
Call_without_upsert(p) ==
    \E request \in Requests :
        /\ running = "none"
        /\ calls[p].pc = "idle"
        /\ TotalArtifacts + InFlight < MaxArtifacts
        /\ IF ~are_modalities_compatible(request.params.acceptedOutputModes,
                                         SUPPORTED_CONTENT_TYPES)
           THEN /\ calls' = [calls EXCEPT
                                ![p] = Returned("error", <<"Incompatible content types">>)]
                /\ running' = "none"
           ELSE /\ calls' = [calls EXCEPT
                                ![p] = [IdleCall EXCEPT !.pc = "invoke", !.request = request]]
                /\ running' = p
        /\ UNCHANGED <<tasks, task_messages, agent, last, lock, responses>>

\* lines 36-52: a request arrives; the modality check; on to upsert_task
Call(p) ==
    \E request \in Requests :
        /\ running = "none"
        /\ calls[p].pc = "idle"
        /\ TotalArtifacts + InFlight < MaxArtifacts
        /\ IF ~are_modalities_compatible(request.params.acceptedOutputModes,
                                         SUPPORTED_CONTENT_TYPES)
           THEN /\ calls' = [calls EXCEPT
                                ![p] = Returned("error", <<"Incompatible content types">>)]
                /\ tasks' = rejected(Store, request.params).tasks
                /\ task_messages' = rejected(Store, request.params).task_messages
                /\ running' = "none"
           ELSE /\ calls' = [calls EXCEPT
                                ![p] = [IdleCall EXCEPT !.pc = "upsert", !.request = request]]
                /\ UNCHANGED <<tasks, task_messages>>
                /\ running' = p
        /\ UNCHANGED <<agent, last, lock, responses>>

\* upsert_task takes the lock
UpsertAcquire(p) ==
    /\ running = p
    /\ calls[p].pc = "upsert"
    /\ lock = "none"
    /\ lock' = p
    /\ calls' = [calls EXCEPT ![p].pc = "upserting"]
    /\ UNCHANGED <<tasks, task_messages, agent, last, running, responses>>

(* upsert_task writes the store, releases the lock and returns; the await   *)
(* of line 52 hands the loop to another coroutine, or it does not           *)
UpsertRelease(p) ==
    \E suspends \in BOOLEAN :
        /\ running = p
        /\ calls[p].pc = "upserting"
        /\ lock = p
        /\ tasks' = upsert_task(Store, calls[p].request.params).tasks
        /\ task_messages' = upsert_task(Store, calls[p].request.params).task_messages
        /\ lock' = "none"
        /\ calls' = [calls EXCEPT ![p].pc = "invoke"]
        /\ running' = IF suspends THEN "none" ELSE p
        /\ UNCHANGED <<agent, last, responses>>

\* _invoke calling the agent inside `async with self.lock`
Invoke_under_lock(p) ==
    /\ running \in {p, "none"}
    /\ calls[p].pc = "invoke"
    /\ lock = "none"
    /\ IF _get_user_query(calls[p].request.params).raised
       THEN /\ calls' = [calls EXCEPT
                            ![p] = Returned("raised",
                                            _get_user_query(calls[p].request.params).error)]
            /\ running' = "none"
            /\ lock' = lock
       ELSE /\ calls' = [calls EXCEPT
                            ![p].pc = "agent",
                            ![p].query = _get_user_query(calls[p].request.params).text]
            /\ running' = p
            /\ lock' = p
    /\ UNCHANGED <<tasks, task_messages, agent, last, responses>>

(* _invoke up to the call of the agent: the query is extracted (line 91),   *)
(* outside the try block, and agent.invoke is entered                       *)
Invoke(p) ==
    /\ running \in {p, "none"}
    /\ calls[p].pc = "invoke"
    /\ IF _get_user_query(calls[p].request.params).raised
       THEN /\ calls' = [calls EXCEPT
                            ![p] = Returned("raised",
                                            _get_user_query(calls[p].request.params).error)]
            /\ running' = "none"
       ELSE /\ calls' = [calls EXCEPT
                            ![p].pc = "agent",
                            ![p].query = _get_user_query(calls[p].request.params).text]
            /\ running' = p
    /\ UNCHANGED <<tasks, task_messages, agent, last, lock, responses>>

\* lines 96-102 and 113-117: agent.invoke returns or raises
AgentReturn(p) ==
    \E fault \in AgentFaults :
        /\ running = p
        /\ calls[p].pc = "agent"
        /\ agent' = IF fault = "invoke" THEN agent
                    ELSE invoke(agent, calls[p].query).self
        /\ calls' = [calls EXCEPT
                        ![p] = IF fault = "none"
                               THEN try_locals(@, invoke(agent, calls[p].query).result)
                               ELSE except_locals(@, FaultText)]
        /\ UNCHANGED <<tasks, task_messages, last, lock, running, responses>>

\* line 70: _update_store takes the lock
UpdateAcquire(p) ==
    /\ running = p
    /\ calls[p].pc = "update"
    /\ lock = "none"
    /\ lock' = p
    /\ calls' = [calls EXCEPT ![p].pc = "updating"]
    /\ UNCHANGED <<tasks, task_messages, agent, last, running, responses>>

\* what _update_store does for the coroutine c
update_of(c) ==
    _update_store(Store, c.request.params.id, c.status, Some_list(<<c.artifact>>))

(* lines 71-87 and the return: the store is written and the lock released.  *)
(* A ValueError of the try block's update goes to the except clause, one of *)
(* the except clause's update leaves the handler.                           *)
UpdateRelease(p) ==
    /\ running = p
    /\ calls[p].pc = "updating"
    /\ lock = p
    /\ lock' = "none"
    /\ tasks' = update_of(calls[p]).store.tasks
    /\ task_messages' = update_of(calls[p]).store.task_messages
    /\ IF ~update_of(calls[p]).raised
       THEN /\ calls' = [calls EXCEPT ![p] = Returned("result", <<>>)]
            /\ responses' = [responses EXCEPT ![calls[p].request.params.id] = @ + 1]
            /\ running' = "none"
       ELSE IF ~calls[p].in_except
       THEN /\ calls' = [calls EXCEPT
                            ![p] = except_locals(@, update_of(calls[p]).error)]
            /\ UNCHANGED <<responses, running>>
       ELSE /\ calls' = [calls EXCEPT
                            ![p] = Returned("raised", update_of(calls[p]).error)]
            /\ responses' = responses
            /\ running' = "none"
    /\ UNCHANGED <<agent, last>>

NextAsync ==
    \E p \in Procs :
        \/ Call(p)
        \/ UpsertAcquire(p)
        \/ UpsertRelease(p)
        \/ Invoke(p)
        \/ AgentReturn(p)
        \/ UpdateAcquire(p)
        \/ UpdateRelease(p)

SpecAsync == Init /\ [][NextAsync]_vars

----------------------------------------------------------------------------
(* Properties *)

Terminal == {"COMPLETED", "FAILED"}

\* the accepted output modes hold "text" or "text/plain"
AcceptsText(request) ==
    \E i \in 1..Len(request.params.acceptedOutputModes) :
        request.params.acceptedOutputModes[i] \in {"text", "text/plain"}

\* the message has a first part and it is not a text part
FirstPartNotText(request) ==
    /\ request.params.message.parts # <<>>
    /\ request.params.message.parts[1].type # "text"

\* the text of the first part of the last artifact of a task
LastArtifactText(task) ==
    artifacts_of(task)[Len(artifacts_of(task))].parts[1].text

\* the artifacts a task id has in the store ts: none when the id is not there
ArtifactsIn(ts, id) == IF id \in DOMAIN ts THEN artifacts_of(ts[id]) ELSE <<>>

ErrorArtifact(text) == Artifact(<<TextPart(<<"Error: ">> \o text)>>)

(* C1: every on_send_task request that accepts "text" or "text/plain",      *)
(* whatever its message parts, returns a response wrapping a task whose     *)
(* state is COMPLETED or FAILED, and the stored task is not left SUBMITTED. *)
C1_SendTaskEndsTerminal ==
    (last.op = "on_send_task" /\ AcceptsText(last.request))
        => /\ last.returned = "result"
           /\ last.task.status.state \in Terminal
           /\ tasks[last.task_id].status.state \in Terminal

(* C2: when the first part of the message is present and is not a text      *)
(* part (output modes compatible), the task ends FAILED with an artifact    *)
(* whose text begins with "Error:".                                         *)
C2_NonTextPartFailsTask ==
    (last.op = "on_send_task" /\ AcceptsText(last.request)
        /\ FirstPartNotText(last.request))
        => /\ tasks[last.task_id].status.state = "FAILED"
           /\ artifacts_of(tasks[last.task_id]) # <<>>
           /\ Head(LastArtifactText(tasks[last.task_id])) = "Error: "

(* C3: an on_send_task request whose accepted output modes share no member  *)
(* with {"text", "text/plain"} gets the incompatible-content-types error,   *)
(* and the step leaves the store as it was: no task created, an existing    *)
(* task with that id unchanged.                                             *)
C3_IncompatibleModesLeaveStore ==
    [][ (last'.op = "on_send_task" /\ ~AcceptsText(last'.request))
            => /\ last'.returned = "error"
               /\ last'.error = <<"Incompatible content types">>
               /\ tasks' = tasks
               /\ task_messages' = task_messages ]_vars

\* C3's case: a rejected request for a task that already holds an artifact
C3_Witness ==
    /\ last.op = "on_send_task"
    /\ last.returned = "error"
    /\ ~AcceptsText(last.request)
    /\ last.task_id \in DOMAIN tasks
    /\ artifacts_of(tasks[last.task_id]) # <<>>

(* C4: a request with compatible modes whose text query has a non-empty     *)
(* Topic line, with no exception in the agent call, ends COMPLETED with an  *)
(* artifact holding the formatted plan, however many requests the shared    *)
(* agent has served before.                                                 *)
C4_TopicQueryYieldsPlan ==
    (/\ last.op = "on_send_task"
     /\ AcceptsText(last.request)
     /\ last.fault = "none"
     /\ last.request.params.message.parts # <<>>
     /\ last.request.params.message.parts[1].type = "text"
     /\ parse_student_info(last.request.params.message.parts[1].text).topic # <<>>)
        => /\ last.returned = "result"
           /\ last.task.status.state = "COMPLETED"
           /\ Head(LastArtifactText(last.task)) = "# Personalized Learning Plan\n\n"

(* C5: when agent.invoke or get_formatted_response raises, on_send_task     *)
(* returns a response wrapping the task, which is FAILED and has exactly    *)
(* one more artifact than before, at the end: one text part                 *)
(* "Error: <fault text>".                                                   *)
C5_AgentFaultFailsTask ==
    [][ (last'.op = "on_send_task" /\ last'.fault \in {"invoke", "format"})
            => /\ last'.returned = "result"
               /\ last'.task = tasks'[last'.task_id]
               /\ tasks'[last'.task_id].status.state = "FAILED"
               /\ artifacts_of(tasks'[last'.task_id])
                      = Append(ArtifactsIn(tasks, last'.task_id), ErrorArtifact(FaultText)) ]_vars

\* C5's case: get_formatted_response raised and the task came back FAILED
C5_Witness ==
    /\ last.op = "on_send_task"
    /\ last.fault = "format"
    /\ last.returned = "result"
    /\ last.task.status.state = "FAILED"

(* C6: when agent.invoke returns a result with an error field, the task     *)
(* ends COMPLETED with exactly one more artifact, whose text is "Error: "   *)
(* followed by the error string; for a query with no topic that text is     *)
(* "Error: Please specify a topic of interest.".                            *)
C6_SoftErrorCompletesTask ==
    [][ (/\ last'.op = "on_send_task"
         /\ last'.fault = "none"
         /\ calls_agent(last'.request)
         /\ invoke(agent, _get_user_query(last'.request.params).text).result.has_error)
            => LET error == invoke(agent, _get_user_query(last'.request.params).text).result.error
                   topic == parse_student_info(_get_user_query(last'.request.params).text).topic
               IN  /\ last'.returned = "result"
                   /\ tasks'[last'.task_id].status.state = "COMPLETED"
                   /\ artifacts_of(tasks'[last'.task_id])
                          = Append(ArtifactsIn(tasks, last'.task_id), ErrorArtifact(error))
                   /\ topic = <<>> =>
                          LastArtifactText(tasks'[last'.task_id])
                              = <<"Error: ", "Please specify a topic of interest.">> ]_vars

\* C6's case: a query with no topic came back COMPLETED with the error text
C6_Witness ==
    /\ last.op = "on_send_task"
    /\ last.fault = "none"
    /\ last.returned = "result"
    /\ last.request.params.message.parts = <<TextPart(Query_no_topic)>>
    /\ last.task.status.state = "COMPLETED"
    /\ LastArtifactText(last.task) = <<"Error: ", "Please specify a topic of interest.">>

(* C7, as claimed: every on_send_task_subscribe request, valid or not,      *)
(* upserts the task and then fails with the streaming-unsupported fault.    *)
C7_StreamingAlwaysUpsertsAndFails ==
    last.op = "on_send_task_subscribe"
        => /\ last.returned = "raised"
           /\ last.error = <<"Streaming is not supported by TutorAgent">>
           /\ last.task_id \in DOMAIN tasks

(* C7, amended: an on_send_task_subscribe request that _validate_request    *)
(* accepts, whatever its output modes, upserts the task (a new one in       *)
(* state SUBMITTED, an existing one as it is) and then fails with the       *)
(* streaming-unsupported fault; one that _validate_request rejects gets     *)
(* the validation error back and the store is as it was.                    *)
C7_StreamingUpsertsWhenValid ==
    [][ last'.op = "on_send_task_subscribe"
            => IF last'.fault = "invalid"
               THEN /\ last'.returned = "error"
                    /\ tasks' = tasks
                    /\ task_messages' = task_messages
               ELSE /\ last'.returned = "raised"
                    /\ last'.error = <<"Streaming is not supported by TutorAgent">>
                    /\ last'.task_id \in DOMAIN tasks'
                    /\ \A id \in DOMAIN tasks : tasks'[id] = tasks[id]
                    /\ last'.task_id \notin DOMAIN tasks
                           => tasks'[last'.task_id].status.state = "SUBMITTED" ]_vars

\* C7's case: a valid streaming request with incompatible modes was upserted
C7_Witness ==
    /\ last.op = "on_send_task_subscribe"
    /\ last.fault = "none"
    /\ ~AcceptsText(last.request)
    /\ last.returned = "raised"
    /\ last.task_id \in DOMAIN tasks
    /\ tasks[last.task_id].status.state = "SUBMITTED"

(* C8: _update_store for a task id that is not in the store fails with      *)
(* task-not-found and leaves the store as it was: no task record, message   *)
(* history or artifact for that id.                                         *)
C8_UpdateOfUnknownTaskFails ==
    [][ (last'.op = "_update_store" /\ last'.task_id \notin DOMAIN tasks)
            => /\ last'.returned = "raised"
               /\ last'.error = <<"Task ", last'.task_id, " not found">>
               /\ tasks' = tasks
               /\ task_messages' = task_messages ]_vars

\* C8's case: an update carrying a message and artifacts for an unknown id
C8_Witness ==
    /\ last.op = "_update_store"
    /\ last.returned = "raised"
    /\ last.task_id \notin DOMAIN tasks
    /\ last.task_id \notin DOMAIN task_messages
    /\ ~last.status.message.is_none
    /\ last.artifacts.list # <<>>

IsPrefix(s, t) == Len(s) <= Len(t) /\ SubSeq(t, 1, Len(s)) = s

(* C9: artifact lists are append-only.  No step removes a task, or removes, *)
(* replaces or reorders an artifact a task has: the old list is a prefix of *)
(* the new one.  An on_send_task that returns a task (also one re-sent for  *)
(* an id that has artifacts) adds exactly its one artifact at the end, so   *)
(* the length after two updates is the sum of both additions.               *)
C9_ArtifactsAppendOnly ==
    [][ /\ \A id \in DOMAIN tasks :
              /\ id \in DOMAIN tasks'
              /\ IsPrefix(artifacts_of(tasks[id]), artifacts_of(tasks'[id]))
              /\ ~tasks[id].artifacts.is_none => ~tasks'[id].artifacts.is_none
        /\ (last'.op = "on_send_task" /\ last'.returned = "result")
              => /\ Len(artifacts_of(tasks'[last'.task_id]))
                        = Len(ArtifactsIn(tasks, last'.task_id)) + 1
                 /\ \A id \in DOMAIN tasks' \ {last'.task_id} :
                        artifacts_of(tasks'[id]) = ArtifactsIn(tasks, id) ]_vars

(* The same for the store on its own (SpecStore): a direct _update_store    *)
(* that returns adds exactly the artifacts it was given, in their order,    *)
(* after the ones the task had.                                             *)
StoreUpdateAppends ==
    [][ /\ \A id \in DOMAIN tasks :
              /\ id \in DOMAIN tasks'
              /\ IsPrefix(artifacts_of(tasks[id]), artifacts_of(tasks'[id]))
        /\ (last'.op = "_update_store" /\ last'.returned = "result")
              => artifacts_of(tasks'[last'.task_id])
                     = artifacts_of(tasks[last'.task_id]) \o last'.artifacts.list ]_vars

\* C9's case: a second update of one task, whose two artifacts differ
C9_Witness ==
    /\ last.op = "on_send_task"
    /\ last.returned = "result"
    /\ Len(artifacts_of(tasks[last.task_id])) = 2
    /\ artifacts_of(tasks[last.task_id])[1] # artifacts_of(tasks[last.task_id])[2]

(* C10: over on_send_task and on_send_task_subscribe requests a task that   *)
(* is COMPLETED or FAILED stays COMPLETED or FAILED; an upsert of an        *)
(* existing id leaves its status, and every status the task manager writes  *)
(* is COMPLETED or FAILED (a new task starts SUBMITTED).                    *)
C10_TerminalStaysTerminal ==
    [][ /\ \A id \in DOMAIN tasks :
              /\ id \in DOMAIN tasks'
              /\ tasks[id].status.state \in Terminal
                    => tasks'[id].status.state \in Terminal
              /\ tasks'[id].status # tasks[id].status
                    => tasks'[id].status.state \in Terminal
        /\ \A id \in DOMAIN tasks' \ DOMAIN tasks :
              tasks'[id].status.state \in Terminal \cup {"SUBMITTED"} ]_vars

\* C10's case: a streaming request upserted a task that was already terminal
C10_Witness ==
    /\ last.op = "on_send_task_subscribe"
    /\ last.returned = "raised"
    /\ last.task_id \in DOMAIN tasks
    /\ tasks[last.task_id].status.state \in Terminal

(* C11: in every reachable state a task whose state is COMPLETED or FAILED  *)
(* has a non-empty artifact list, and the one text part of its most recent  *)
(* artifact holds the formatted learning plan of some query or a text that  *)
(* begins with "Error: ".                                                   *)
PlanTexts ==
    { get_formatted_response(invoke(TutorAgent_init, q).result) :
        q \in {x \in Queries : parse_student_info(x).topic # <<>>} }

HoldsPlanOrError(task) ==
    /\ ~task.artifacts.is_none
    /\ task.artifacts.list # <<>>
    /\ Len(task.artifacts.list[Len(task.artifacts.list)].parts) = 1
    /\ task.artifacts.list[Len(task.artifacts.list)].parts[1].type = "text"
    /\ \/ LastArtifactText(task) \in PlanTexts
       \/ /\ LastArtifactText(task) # <<>>
          /\ Head(LastArtifactText(task)) = "Error: "

C11_TerminalTaskHasArtifact ==
    \A id \in DOMAIN tasks :
        tasks[id].status.state \in Terminal => HoldsPlanOrError(tasks[id])

(* C11's case: a task that completed with a plan and then failed: it holds  *)
(* the plan and, as its most recent artifact, the error text                *)
C11_Witness ==
    \E id \in DOMAIN tasks :
        /\ tasks[id].status.state = "FAILED"
        /\ Len(artifacts_of(tasks[id])) = 2
        /\ artifacts_of(tasks[id])[1].parts[1].text \in PlanTexts
        /\ Head(LastArtifactText(tasks[id])) = "Error: "

\* a step of a coroutine other than p
OtherStep(p) ==
    \E q \in Procs \ {p} :
        \/ Call(q)
        \/ UpsertAcquire(q)
        \/ UpsertRelease(q)
        \/ Invoke(q)
        \/ AgentReturn(q)
        \/ UpdateAcquire(q)
        \/ UpdateRelease(q)

\* a step that takes another request in, on a coroutine other than p
OtherCall(p) == \E q \in Procs \ {p} : Call(q)

(* C12 as stated: the lock is not held while the agent is being invoked,    *)
(* and while an agent call is in progress another request can come in and   *)
(* go on to acquire the lock (whenever the store has room for its           *)
(* artifact and a coroutine is free to take it).                            *)
C12_OtherRequestRunsDuringAgentCall ==
    \A p \in Procs :
        calls[p].pc = "agent"
            => /\ lock = "none"
               /\ (TotalArtifacts + InFlight < MaxArtifacts
                     /\ \E q \in Procs \ {p} : calls[q].pc = "idle")
                      => ENABLED OtherCall(p)

(* C12, amended: the lock is held only inside upsert_task and inside        *)
(* _update_store, by the coroutine that is there; between its upsert and    *)
(* its _update_store a coroutine does not hold it, and while an agent call  *)
(* is in progress nobody holds it.  The agent call is synchronous: while    *)
(* it is in progress the event loop runs no other coroutine, so no other    *)
(* request takes a step or the lock until the call has returned.            *)
C12_LockNotHeldAcrossAgentCall ==
    /\ lock # "none" => calls[lock].pc \in {"upserting", "updating"}
    /\ \A p \in Procs :
        /\ calls[p].pc \in {"upserting", "updating"} => lock = p
        /\ calls[p].pc = "agent"
            => /\ lock = "none"
               /\ running = p
               /\ ~ENABLED OtherStep(p)

(* C12's case: an agent call in progress while another request for the     *)
(* same task id, already upserted, waits to go on                           *)
C12_Witness ==
    \E p \in Procs, q \in Procs :
        /\ p # q
        /\ calls[p].pc = "agent"
        /\ calls[q].pc = "invoke"
        /\ calls[p].request.params.id = calls[q].request.params.id
        /\ lock = "none"

(* C13: the upsert of a task id that is already in the store leaves the     *)
(* store as it is: the record, its status, its artifacts and its history;   *)
(* no step removes a record; and a call of on_send_task changes no task     *)
(* between its upsert and its own _update_store.                            *)
C13_UpsertIsIdempotent ==
    [][ /\ DOMAIN tasks \subseteq DOMAIN tasks'
        /\ \A p \in Procs :
            /\ (calls[p].pc = "upserting" /\ calls'[p].pc = "invoke"
                    /\ calls[p].request.params.id \in DOMAIN tasks)
                  => /\ tasks' = tasks
                     /\ task_messages' = task_messages
            /\ (calls[p].pc \in {"upsert", "invoke", "agent", "update"}
                    /\ calls'[p] # calls[p])
                  => tasks' = tasks ]_vars

(* C13's case: a second call for a task that the first left COMPLETED or    *)
(* FAILED with its artifact has done its upsert and not yet its update      *)
C13_Witness ==
    \E p \in Procs :
        /\ calls[p].pc = "invoke"
        /\ calls[p].request.params.id \in DOMAIN tasks
        /\ tasks[calls[p].request.params.id].status.state \in Terminal
        /\ artifacts_of(tasks[calls[p].request.params.id]) # <<>>

\* the coroutine p leaves on_send_task in this step
Returns(p) == calls[p].pc # "idle" /\ calls'[p].pc = "idle"

(* C14: calls of on_send_task that overlap on one task id lose no update.   *)
(* A call whose first part is text (or that has no part) ends by returning  *)
(* a task, in the step in which, holding the lock, it puts its one artifact *)
(* after those already there and writes its status; no other step changes   *)
(* the artifacts or the status of a task; so the artifacts of a task stand  *)
(* in the order in which the calls held the lock, the status is that of the *)
(* last one, and there is one artifact for each task response.              *)
C14_NoLostUpdate ==
    /\ [](\A id \in TaskIds : Len(ArtifactsIn(tasks, id)) = responses[id])
    /\ [][ \A p \in Procs :
            /\ (Returns(p) /\ ~_get_user_query(calls[p].request.params).raised)
                  => /\ calls[p].pc = "updating"
                     /\ lock = p
                     /\ calls'[p].returned = "result"
                     /\ artifacts_of(tasks'[calls[p].request.params.id])
                            = Append(ArtifactsIn(tasks, calls[p].request.params.id),
                                     calls[p].artifact)
                     /\ tasks'[calls[p].request.params.id].status = calls[p].status
            /\ (\A q \in Procs : ~(calls[q].pc = "updating" /\ Returns(q)))
                  => \A id \in DOMAIN tasks :
                        /\ tasks'[id].status = tasks[id].status
                        /\ tasks'[id].artifacts = tasks[id].artifacts ]_vars

(* C14's case: two calls for one task id overlap, one suspended after its   *)
(* upsert while the other holds the lock in _update_store                   *)
C14_Witness ==
    \E p \in Procs, q \in Procs :
        /\ p # q
        /\ calls[p].pc = "updating"
        /\ calls[q].pc = "invoke"
        /\ calls[p].request.params.id = calls[q].request.params.id
        /\ ~_get_user_query(calls[q].request.params).raised
        /\ lock = p

(* C15: every on_send_task request that passes the modality check writes   *)
(* the status of its task and appends exactly one artifact, of exactly one  *)
(* text part, and returns the task.                                         *)
C15_OneArtifactPerRequest ==
    [][ (last'.op = "on_send_task" /\ AcceptsText(last'.request))
            => /\ last'.returned = "result"
               /\ tasks'[last'.task_id].status.state \in Terminal
               /\ Len(artifacts_of(tasks'[last'.task_id]))
                      = Len(ArtifactsIn(tasks, last'.task_id)) + 1
               /\ Len(artifacts_of(tasks'[last'.task_id])
                          [Len(artifacts_of(tasks'[last'.task_id]))].parts) = 1
               /\ artifacts_of(tasks'[last'.task_id])
                          [Len(artifacts_of(tasks'[last'.task_id]))].parts[1].type = "text"
      ]_vars

\* the text is the message of the ValueError of _update_store
IsTaskNotFound(text) == text # <<>> /\ Head(text) = "Task "

(* C16: a call of on_send_task that is past its upsert finds its task in    *)
(* the store, no step removes a task, and so no _update_store of            *)
(* on_send_task raises "Task <id> not found": the error reaches neither     *)
(* the except clause nor the caller.                                        *)
C16_UpdateFindsItsTask ==
    /\ [](\A p \in Procs :
            /\ calls[p].pc \in {"invoke", "agent", "update", "updating"}
                  => calls[p].request.params.id \in DOMAIN tasks
            /\ calls[p].pc = "updating" => ~update_of(calls[p]).raised
            /\ ~IsTaskNotFound(calls[p].error)
            /\ calls[p].pc \in {"update", "updating"}
                  => calls[p].artifact.parts[1].text
                        \notin { <<"Error: ", "Task ", t, " not found">> : t \in TaskIds })
    /\ [][DOMAIN tasks \subseteq DOMAIN tasks']_vars

(* C16's case: the except clause is about to update a task while a call    *)
(* for the other task id, past its upsert, waits to go on                   *)
C16_Witness ==
    \E p \in Procs, q \in Procs :
        /\ calls[p].pc = "updating"
        /\ calls[p].in_except
        /\ calls[q].pc = "invoke"
        /\ calls[p].request.params.id # calls[q].request.params.id
        /\ {calls[p].request.params.id, calls[q].request.params.id} \subseteq DOMAIN tasks

\* the task id of the call that the coroutine p is in, or enters, in this step
IdOf(p) ==
    IF calls[p].pc # "idle" THEN calls[p].request.params.id
    ELSE calls'[p].request.params.id

\* the task id B is in the store after the step as it was before it
SameTask(B) ==
    /\ (B \in DOMAIN tasks') = (B \in DOMAIN tasks)
    /\ B \in DOMAIN tasks
          => /\ tasks'[B] = tasks[B]
             /\ task_messages'[B] = task_messages[B]

(* C17: every step of a call of on_send_task for the task id A, the steps  *)
(* of its _update_store among them, leaves every other task id as it was:  *)
(* in the store or not, its status, its artifacts and its history.          *)
C17_OtherTasksUnchanged ==
    [][ \A p \in Procs :
            calls'[p] # calls[p]
                => \A B \in TaskIds \ {IdOf(p)} : SameTask(B) ]_vars

(* the same for _update_store and upsert_task called directly, with any     *)
(* status and any list of artifacts (under SpecStore)                       *)
StoreUpdateFrame ==
    [][ \A B \in TaskIds \ {last'.task_id} : SameTask(B) ]_vars

(* C17's case: both task ids have had a call that updated them: the later   *)
(* of the two updates ran with the other task in the store                  *)
C17_Witness ==
    /\ DOMAIN tasks = TaskIds
    /\ \A t \in TaskIds :
          /\ responses[t] = 1
          /\ tasks[t].status.state \in Terminal

====
